---- MODULE Spec2Model ----
(***************************************************************************)
(* Model of src/setup.py: the four batch analyzers                         *)
(*   detect_abnormal_posting, detect_repeated_phrases,                     *)
(*   sentiment_analysis, analyze_network.                                  *)
(*                                                                         *)
(* One behaviour is one call of one analyzer.  Init draws the analyzer,    *)
(* its argument and its keyword parameters; the actions are the type check *)
(* at the top of the function, one iteration of its loop, and the code     *)
(* after the loop.  pc = "done" means the call returned `result`,          *)
(* pc = "raised" means an exception left the function.                     *)
(*                                                                         *)
(* Python values are records with a `type` field (the isinstance checks of *)
(* the code read it).  Floats are modelled exactly: every comparison of    *)
(* the code is cross-multiplied into integers.                             *)
(***************************************************************************)
EXTENDS Integers, Sequences, FiniteSets, TLC

VARIABLES
    globals,              \* names bound in the module namespace when the call is made
    call,                 \* the analyzer being called
    arg,                  \* its first positional argument
    params,               \* its keyword parameters
    pc,                   \* "call", "loop", "done", "raised"
    i,                    \* number of loop iterations already made
    suspicious_accounts,  \* detect_abnormal_posting: local list
    phrase_counts,        \* detect_repeated_phrases: local defaultdict(int)
    sentiments,           \* sentiment_analysis: local list
    score_raised,         \* sentiment_analysis: indices whose scoring raised
    G,                    \* analyze_network: the graph
    result,               \* the returned value
    raised,               \* name of the exception that left the function, or "none"
    log                   \* records emitted through logging.*

vars == <<globals, call, arg, params, pc, i, suspicious_accounts, phrase_counts,
          sentiments, score_raised, G, result, raised, log>>

----------------------------------------------------------------------------
(* Bounds *)

MaxTimestamps == 3       \* longest timestamp list of the first account
MaxOtherTimestamps == 2  \* longest timestamp list of the second account
MaxPosts == 2            \* longest post list
MaxPostLen == 1          \* longest post, in characters
MaxFriends == 2          \* longest friend list

----------------------------------------------------------------------------
(* Python values *)

PyStr(t) == [type |-> "str", text |-> t, elems |-> <<>>]
PyInt(t) == [type |-> "int", text |-> t, elems |-> <<>>]
PyNone == [type |-> "NoneType", text |-> "", elems |-> <<>>]
PyList(es) == [type |-> "list", text |-> "", elems |-> es]
PyDict(es) == [type |-> "dict", text |-> "", elems |-> es]
Item(k, v) == [key |-> k, value |-> v]

\* bool(v): the truth value `not v` negates
Truthy(v) ==
    CASE v.type \in {"list", "dict"} -> Len(v.elems) > 0
      [] v.type = "NoneType" -> FALSE
      [] v.type = "int" -> v.text # "0"
      [] OTHER -> v.text # ""

SeqsUpTo(S, n) == UNION {[1..k -> S] : k \in 0..n}

RECURSIVE SumSeq(_)
SumSeq(s) == IF s = <<>> THEN 0 ELSE Head(s) + SumSeq(Tail(s))

Range(s) == {s[k] : k \in 1..Len(s)}

LogRec(level, what, about) == [level |-> level, what |-> what, about |-> about]

----------------------------------------------------------------------------
(* The module namespace *)

\* names the file binds at module level: the imports of lines 1-9 and the defs
ModuleGlobals ==
    {"subprocess", "sys", "os", "logging", "traceback", "re", "defaultdict",
     "datetime", "statistics", "install_dependencies", "detect_abnormal_posting",
     "detect_repeated_phrases", "sentiment_analysis", "analyze_network"}

\* names the imports inside install_dependencies bind: locals of that function
InstallDependenciesLocals == {"nx", "TextBlob", "parser"}

\* a global name lookup: succeeds only for a name bound in the module namespace
Resolves(name) == name \in globals

----------------------------------------------------------------------------
(* detect_abnormal_posting *)

\* dateutil's parser.parse on the timestamp strings of the model: an instant in
\* seconds after 2025-03-09 12:00:00, or ok = FALSE for a ValueError
ParserParse(ts) ==
    CASE ts = "2025-03-09 12:00:00" -> [ok |-> TRUE, instant |-> 0]
      [] ts = "2025/03/09 12:00:40" -> [ok |-> TRUE, instant |-> 40]
      [] OTHER -> [ok |-> FALSE, instant |-> 0]

Parseable(ts) == ParserParse(ts).ok

\* variant of ParseTimestamps: a string that raises ValueError is replaced by
\* the reference instant instead of being dropped
RECURSIVE ParseTimestampsKeepFailed(_)
ParseTimestampsKeepFailed(tss) ==
    IF tss = <<>> THEN <<>>
    ELSE <<ParserParse(Head(tss).text).instant>> \o ParseTimestampsKeepFailed(Tail(tss))

\* lines 48-54: parse every string, dropping the ones that raise ValueError
RECURSIVE ParseTimestamps(_)
ParseTimestamps(tss) ==
    IF tss = <<>> THEN <<>>
    ELSE IF Parseable(Head(tss).text)
         THEN <<ParserParse(Head(tss).text).instant>> \o ParseTimestamps(Tail(tss))
         ELSE ParseTimestamps(Tail(tss))

\* lines 52-53: one error record per string that raised ValueError
RECURSIVE ParseErrors(_, _)
ParseErrors(account, tss) ==
    IF tss = <<>> THEN <<>>
    ELSE IF Parseable(Head(tss).text)
         THEN ParseErrors(account, Tail(tss))
         ELSE <<LogRec("error", "parse", <<account, Head(tss).text>>)>>
              \o ParseErrors(account, Tail(tss))

RECURSIVE Insert(_, _)
Insert(x, s) ==
    IF s = <<>> THEN <<x>>
    ELSE IF x <= Head(s) THEN <<x>> \o s
         ELSE <<Head(s)>> \o Insert(x, Tail(s))

\* variant of Sorted: the list is left in input order
Unsorted(s) == s

\* line 59: sorted(parsed_timestamps)
RECURSIVE Sorted(_)
Sorted(s) == IF s = <<>> THEN <<>> ELSE Insert(Head(s), Sorted(Tail(s)))

\* line 60: gaps between successive elements, in seconds
Intervals(ts) == [k \in 1..(Len(ts) - 1) |-> ts[k + 1] - ts[k]]

\* lines 63-64: sum(intervals) / len(intervals) < interval_threshold
AvgBelowThreshold(intervals, interval_threshold) ==
    SumSeq(intervals) < interval_threshold * Len(intervals)

\* lines 69-71 for one interval x, with n = len(intervals), S = sum(intervals),
\* avg = S/n and stddev^2 = sum((x_k - avg)^2) / (n-1):
\*   x < avg - k*stddev  <=>  S - n*x > 0  /\  k^2 * sum((n*x_k - S)^2) < (n-1) * (S - n*x)^2
\* (k >= 0; both sides of k*stddev < avg - x are squared and scaled by n^2 * (n-1))
IsOutlier(x, intervals, interval_threshold, k) ==
    LET n == Len(intervals)
        S == SumSeq(intervals)
        SqDev == SumSeq([j \in 1..n |-> (n * intervals[j] - S) * (n * intervals[j] - S)])
    IN  /\ x < interval_threshold
        /\ S - n * x > 0
        /\ k * k * SqDev < (n - 1) * (S - n * x) * (S - n * x)

\* lines 68-73: the outlier loop runs only when there are at least 2 intervals
HasOutlier(intervals, interval_threshold, k) ==
    /\ Len(intervals) > 1
    /\ \E j \in 1..Len(intervals) : IsOutlier(intervals[j], intervals, interval_threshold, k)

\* lines 65-66, 72-73: append unless already present
AppendOnce(s, x) == IF x \in Range(s) THEN s ELSE Append(s, x)

\* lines 75-77: the handler of the per-account try block logs and moves on
AccountError(suspicious, account, exc) ==
    [suspicious |-> suspicious,
     log |-> <<LogRec("error", exc, account)>>]

\* lines 39-77: the body of the loop for one (account, timestamps) item
ProcessAccount(suspicious, account, timestamps, p) ==
    IF ~Truthy(timestamps) THEN [suspicious |-> suspicious, log |-> <<>>]
    ELSE IF timestamps.type # "list"
    THEN AccountError(suspicious, account, "TypeError")
    ELSE IF \E k \in 1..Len(timestamps.elems) : timestamps.elems[k].type # "str"
    THEN AccountError(suspicious, account, "TypeError")
    ELSE IF ~Resolves("parser")
    THEN AccountError(suspicious, account, "NameError")
    ELSE LET parsed_timestamps == ParseTimestamps(timestamps.elems)
             errs == ParseErrors(account, timestamps.elems)
             intervals == Intervals(Sorted(parsed_timestamps))
         IN  IF Len(parsed_timestamps) < 2 THEN [suspicious |-> suspicious, log |-> errs]
             ELSE IF Len(intervals) = 0 THEN [suspicious |-> suspicious, log |-> errs]
             ELSE LET s1 == IF AvgBelowThreshold(intervals, p.interval_threshold)
                            THEN AppendOnce(suspicious, account) ELSE suspicious
                      s2 == IF HasOutlier(intervals, p.interval_threshold,
                                          p.outlier_threshold_stddev)
                            THEN AppendOnce(s1, account) ELSE s1
                  IN  [suspicious |-> s2, log |-> errs]

\* variant of ArgTypeOk: the argument is not checked
ArgTypeUnchecked(v, t) == TRUE

\* lines 33, 83, 103, 130: isinstance check of the top-level argument
ArgTypeOk(v, t) == v.type = t

\* the inputs of detect_abnormal_posting
TimestampElems ==
    {PyStr("2025-03-09 12:00:00"), PyStr("2025/03/09 12:00:40"),
     PyStr("not a date"), PyInt("7")}

TimestampValues(n) ==
    {PyList(s) : s \in SeqsUpTo(TimestampElems, n)}
        \cup {PyNone, PyStr("2025-03-09 12:00:00")}

AccountsData ==
    {PyDict(<<Item(PyStr("bot1"), v1), Item(PyStr("human"), v2)>>) :
        v1 \in TimestampValues(MaxTimestamps), v2 \in TimestampValues(MaxOtherTimestamps)}

NotADict == {PyNone, PyList(<<PyStr("bot1")>>)}

\* (interval_threshold, outlier_threshold_stddev): the defaults of line 31 and
\* a stricter pair
AbnormalParams ==
    {[interval_threshold |-> 30, outlier_threshold_stddev |-> 2],
     [interval_threshold |-> 10, outlier_threshold_stddev |-> 0]}

NoLocals ==
    /\ suspicious_accounts = <<>>
    /\ phrase_counts = <<>>
    /\ sentiments = <<>>
    /\ score_raised = {}
    /\ G = [nodes |-> {}, edges |-> {}]

InitAbnormal ==
    /\ call = "detect_abnormal_posting"
    /\ arg \in AccountsData \cup NotADict
    /\ params \in AbnormalParams

\* lines 33-37
DetectAbnormalPosting_Enter ==
    /\ call = "detect_abnormal_posting" /\ pc = "call"
    /\ IF ~ArgTypeOk(arg, "dict")
       THEN /\ log' = Append(log, LogRec("error", "accounts_data must be a dictionary", arg.type))
            /\ result' = <<>>
            /\ pc' = "done"
            /\ UNCHANGED raised
       ELSE IF arg.type # "dict"
       THEN \* line 38: .items() of a non-dict
            /\ pc' = "raised" /\ raised' = "AttributeError"
            /\ UNCHANGED <<log, result>>
       ELSE /\ pc' = "loop"
            /\ UNCHANGED <<log, result, raised>>
    /\ UNCHANGED <<globals, call, arg, params, i, suspicious_accounts, phrase_counts,
                   sentiments, score_raised, G>>

\* lines 38-77: one iteration of the loop over accounts_data.items()
DetectAbnormalPosting_Account ==
    /\ call = "detect_abnormal_posting" /\ pc = "loop"
    /\ i < Len(arg.elems)
    /\ LET item == arg.elems[i + 1]
           r == ProcessAccount(suspicious_accounts, item.key, item.value, params)
       IN  /\ suspicious_accounts' = r.suspicious
           /\ log' = log \o r.log
    /\ i' = i + 1
    /\ UNCHANGED <<globals, call, arg, params, pc, phrase_counts, sentiments,
                   score_raised, G, result, raised>>

\* line 79
DetectAbnormalPosting_Return ==
    /\ call = "detect_abnormal_posting" /\ pc = "loop"
    /\ i = Len(arg.elems)
    /\ result' = suspicious_accounts
    /\ pc' = "done"
    /\ UNCHANGED <<globals, call, arg, params, i, suspicious_accounts, phrase_counts,
                   sentiments, score_raised, G, raised, log>>

----------------------------------------------------------------------------
(* detect_repeated_phrases *)

\* the characters of the model: an upper-case and a lower-case letter, a
\* punctuation mark and a blank
Chars == {"H", "h", "!", " "}

IsSpace(c) == c = " "

\* line 93, default cleaning_regex [^a-zA-Z0-9\s]: the characters it keeps
KeptByCleaningRegex(c) == c \in {"H", "h", " "}

\* str.lower on one character
LowerChar(c) == IF c = "H" THEN "h" ELSE c

\* variant of Lower: the case of the post is kept
LowerSkipped(s) == s

\* line 93: post.lower()
Lower(s) == [k \in 1..Len(s) |-> LowerChar(s[k])]

\* line 93: re.sub(cleaning_regex, '', s)
RECURSIVE ReSub(_)
ReSub(s) ==
    IF s = <<>> THEN <<>>
    ELSE IF KeptByCleaningRegex(Head(s)) THEN <<Head(s)>> \o ReSub(Tail(s))
         ELSE ReSub(Tail(s))

RECURSIVE LStrip(_)
LStrip(s) == IF s # <<>> /\ IsSpace(Head(s)) THEN LStrip(Tail(s)) ELSE s

RECURSIVE RStrip(_)
RStrip(s) ==
    IF s # <<>> /\ IsSpace(s[Len(s)]) THEN RStrip(SubSeq(s, 1, Len(s) - 1)) ELSE s

\* line 93: str.strip()
Strip(s) == RStrip(LStrip(s))

\* line 93: cleaned_post
CleanedPost(text) == Strip(ReSub(Lower(text)))

\* line 94: phrase_counts[cleaned_post] += 1 on a defaultdict(int); the dict
\* keeps its keys in insertion order
Increment(counts, phrase) ==
    IF \E k \in 1..Len(counts) : counts[k].phrase = phrase
    THEN [k \in 1..Len(counts) |->
            IF counts[k].phrase = phrase
            THEN [counts[k] EXCEPT !.count = @ + 1] ELSE counts[k]]
    ELSE Append(counts, [phrase |-> phrase, count |-> 1])

\* variant of RepeatedPhrases: the comparison is >= instead of >
RECURSIVE RepeatedPhrasesAtLeast(_, _)
RepeatedPhrasesAtLeast(counts, repetition_threshold) ==
    IF counts = <<>> THEN <<>>
    ELSE IF Head(counts).count >= repetition_threshold
         THEN <<Head(counts).phrase>>
              \o RepeatedPhrasesAtLeast(Tail(counts), repetition_threshold)
         ELSE RepeatedPhrasesAtLeast(Tail(counts), repetition_threshold)

\* line 99: the keys whose count is greater than repetition_threshold
RECURSIVE RepeatedPhrases(_, _)
RepeatedPhrases(counts, repetition_threshold) ==
    IF counts = <<>> THEN <<>>
    ELSE IF Head(counts).count > repetition_threshold
         THEN <<Head(counts).phrase>> \o RepeatedPhrases(Tail(counts), repetition_threshold)
         ELSE RepeatedPhrases(Tail(counts), repetition_threshold)

\* the inputs of detect_repeated_phrases and sentiment_analysis
PostElems == {PyStr(s) : s \in SeqsUpTo(Chars, MaxPostLen)} \cup {PyInt(<<"7">>)}

Posts == {PyList(s) : s \in SeqsUpTo(PostElems, MaxPosts)}

NotAList == {PyNone, PyStr(<<"h">>)}

PhraseParams == {[repetition_threshold |-> 0], [repetition_threshold |-> 1]}

InitPhrases ==
    /\ call = "detect_repeated_phrases"
    /\ arg \in Posts \cup NotAList
    /\ params \in PhraseParams

\* lines 83-87
DetectRepeatedPhrases_Enter ==
    /\ call = "detect_repeated_phrases" /\ pc = "call"
    /\ IF ~ArgTypeOk(arg, "list")
       THEN /\ log' = Append(log, LogRec("error", "posts must be a list", arg.type))
            /\ result' = <<>>
            /\ pc' = "done"
            /\ UNCHANGED raised
       ELSE IF arg.type # "list"
       THEN \* line 88: iteration over a value that is not a list
            /\ pc' = "raised" /\ raised' = "TypeError"
            /\ UNCHANGED <<log, result>>
       ELSE /\ pc' = "loop"
            /\ UNCHANGED <<log, result, raised>>
    /\ UNCHANGED <<globals, call, arg, params, i, suspicious_accounts, phrase_counts,
                   sentiments, score_raised, G>>

\* lines 88-97: one iteration of the loop over posts
DetectRepeatedPhrases_Post ==
    /\ call = "detect_repeated_phrases" /\ pc = "loop"
    /\ i < Len(arg.elems)
    /\ LET post == arg.elems[i + 1]
       IN  IF post.type # "str"
           THEN /\ log' = Append(log, LogRec("error", "post is not a string", i + 1))
                /\ UNCHANGED phrase_counts
           ELSE /\ phrase_counts' = Increment(phrase_counts, CleanedPost(post.text))
                /\ UNCHANGED log
    /\ i' = i + 1
    /\ UNCHANGED <<globals, call, arg, params, pc, suspicious_accounts, sentiments,
                   score_raised, G, result, raised>>

\* line 99
DetectRepeatedPhrases_Return ==
    /\ call = "detect_repeated_phrases" /\ pc = "loop"
    /\ i = Len(arg.elems)
    /\ result' = RepeatedPhrases(phrase_counts, params.repetition_threshold)
    /\ pc' = "done"
    /\ UNCHANGED <<globals, call, arg, params, i, suspicious_accounts, phrase_counts,
                   sentiments, score_raised, G, raised, log>>

----------------------------------------------------------------------------
(* sentiment_analysis *)

\* TextBlob(post).sentiment.polarity, in hundredths: a fixed function of the
\* text with values in [-100, 100]
Polarity(text) ==
    IF \A k \in 1..Len(text) : text[k] \notin {"H", "h"} THEN 0
    ELSE IF \E k \in 1..Len(text) : text[k] = "!" THEN -75
    ELSE IF \E k \in 1..Len(text) : text[k] = "H" THEN 100
    ELSE 50

\* the number 0 returned at lines 105, 109 and 124
Zero == [num |-> 0, den |-> 1]

\* variant of Mean: the sum is divided by the number of posts
MeanOverPosts(s) == [num |-> SumSeq(s), den |-> Len(arg.elems)]

\* line 126: sum(sentiments) / len(sentiments), as an exact fraction
Mean(s) == [num |-> SumSeq(s), den |-> Len(s)]

InitSentiment ==
    /\ call = "sentiment_analysis"
    /\ arg \in Posts \cup NotAList
    /\ params = [none |-> 0]

\* lines 103-111
SentimentAnalysis_Enter ==
    /\ call = "sentiment_analysis" /\ pc = "call"
    /\ IF ~ArgTypeOk(arg, "list")
       THEN /\ log' = Append(log, LogRec("error", "posts must be a list", arg.type))
            /\ result' = Zero
            /\ pc' = "done"
            /\ UNCHANGED raised
       ELSE IF ~Truthy(arg)
       THEN /\ log' = Append(log, LogRec("info", "no posts provided", arg.type))
            /\ result' = Zero
            /\ pc' = "done"
            /\ UNCHANGED raised
       ELSE IF arg.type # "list"
       THEN \* line 112: iteration over a value that is not a list
            /\ pc' = "raised" /\ raised' = "TypeError"
            /\ UNCHANGED <<log, result>>
       ELSE /\ pc' = "loop"
            /\ UNCHANGED <<log, result, raised>>
    /\ UNCHANGED <<globals, call, arg, params, i, suspicious_accounts, phrase_counts,
                   sentiments, score_raised, G>>

\* lines 112-120: one iteration of the loop over posts; scoring either returns
\* the polarity or raises, and the lookup of TextBlob raises NameError when the
\* name is not bound
SentimentAnalysis_Post ==
    /\ call = "sentiment_analysis" /\ pc = "loop"
    /\ i < Len(arg.elems)
    /\ LET post == arg.elems[i + 1]
       IN  IF post.type # "str"
           THEN /\ log' = Append(log, LogRec("error", "post is not a string", i + 1))
                /\ UNCHANGED <<sentiments, score_raised>>
           ELSE \E raises \in BOOLEAN :
                  IF raises \/ ~Resolves("TextBlob")
                  THEN /\ log' = Append(log, LogRec("error", "analyzing sentiment", i + 1))
                       /\ score_raised' = score_raised \cup {i + 1}
                       /\ UNCHANGED sentiments
                  ELSE /\ sentiments' = Append(sentiments, Polarity(post.text))
                       /\ UNCHANGED <<log, score_raised>>
    /\ i' = i + 1
    /\ UNCHANGED <<globals, call, arg, params, pc, suspicious_accounts, phrase_counts,
                   G, result, raised>>

\* lines 122-126
SentimentAnalysis_Return ==
    /\ call = "sentiment_analysis" /\ pc = "loop"
    /\ i = Len(arg.elems)
    /\ IF sentiments = <<>>
       THEN /\ log' = Append(log, LogRec("info", "no valid posts", arg.type))
            /\ result' = Zero
       ELSE /\ result' = Mean(sentiments)
            /\ UNCHANGED log
    /\ pc' = "done"
    /\ UNCHANGED <<globals, call, arg, params, i, suspicious_accounts, phrase_counts,
                   sentiments, score_raised, G, raised>>

----------------------------------------------------------------------------
(* analyze_network *)

\* lines 142-147: G.add_edge(account, friend) for every string friend
AddEdges(g, account, friends) ==
    LET strs == {k \in 1..Len(friends) : friends[k].type = "str"}
    IN  [nodes |-> g.nodes \cup (IF strs = {} THEN {} ELSE {account.text})
                           \cup {friends[k].text : k \in strs},
         edges |-> g.edges \cup {{account.text, friends[k].text} : k \in strs}]

\* lines 143-145: one error record per friend that is not a string
FriendErrors(friends) ==
    LET bad == {k \in 1..Len(friends) : friends[k].type # "str"}
    IN  [k \in 1..Cardinality(bad) |-> LogRec("error", "friend is not a string", k)]

Neighbours(g, S) == S \cup {n \in g.nodes : \E m \in S : {m, n} \in g.edges}

RECURSIVE ComponentOf(_, _)
ComponentOf(g, S) ==
    IF Neighbours(g, S) = S THEN S ELSE ComponentOf(g, Neighbours(g, S))

\* line 152: nx.connected_components(G)
ConnectedComponents(g) == {ComponentOf(g, {n}) : n \in g.nodes}

\* line 152: the components with more than cluster_threshold nodes
SuspiciousClusters(g, cluster_threshold) ==
    {c \in ConnectedComponents(g) : Cardinality(c) > cluster_threshold}

\* the inputs of analyze_network
FriendElems == {PyStr("a"), PyStr("b"), PyStr("c"), PyStr("d"), PyInt("7")}

FriendValues == {PyList(s) : s \in SeqsUpTo(FriendElems, MaxFriends)} \cup {PyNone}

IntKeyValues == {PyNone, PyList(<<PyStr("a"), PyStr("b")>>)}

Networks ==
    {PyDict(<<Item(PyStr("a"), v1), Item(PyInt("42"), v2), Item(PyStr("b"), v3)>>) :
        v1 \in FriendValues, v2 \in IntKeyValues, v3 \in FriendValues}

NetworkParams == {[cluster_threshold |-> 1], [cluster_threshold |-> 2]}

InitNetwork ==
    /\ call = "analyze_network"
    /\ arg \in Networks \cup NotADict
    /\ params \in NetworkParams

\* lines 130-134
AnalyzeNetwork_Enter ==
    /\ call = "analyze_network" /\ pc = "call"
    /\ IF ~ArgTypeOk(arg, "dict")
       THEN /\ log' = Append(log, LogRec("error", "accounts must be a dictionary", arg.type))
            /\ result' = <<>>
            /\ pc' = "done"
            /\ UNCHANGED raised
       ELSE IF ~Resolves("nx")
       THEN \* line 134: nx.Graph() outside any try block
            /\ pc' = "raised" /\ raised' = "NameError"
            /\ UNCHANGED <<log, result>>
       ELSE IF arg.type # "dict"
       THEN \* line 135: .items() of a non-dict
            /\ pc' = "raised" /\ raised' = "AttributeError"
            /\ UNCHANGED <<log, result>>
       ELSE /\ pc' = "loop"
            /\ UNCHANGED <<log, result, raised>>
    /\ UNCHANGED <<globals, call, arg, params, i, suspicious_accounts, phrase_counts,
                   sentiments, score_raised, G>>

\* lines 135-150: one iteration of the loop over accounts.items()
AnalyzeNetwork_Account ==
    /\ call = "analyze_network" /\ pc = "loop"
    /\ i < Len(arg.elems)
    /\ LET account == arg.elems[i + 1].key
           friends == arg.elems[i + 1].value
       IN  IF friends.type # "list"
           THEN /\ log' = Append(log, LogRec("error", "friends must be a list", i + 1))
                /\ UNCHANGED G
           ELSE IF account.type # "str"
           THEN /\ log' = Append(log, LogRec("error", "account key must be a string", i + 1))
                /\ UNCHANGED G
           ELSE /\ G' = AddEdges(G, account, friends.elems)
                /\ log' = log \o FriendErrors(friends.elems)
    /\ i' = i + 1
    /\ UNCHANGED <<globals, call, arg, params, pc, suspicious_accounts, phrase_counts,
                   sentiments, score_raised, result, raised>>

\* lines 152-153
AnalyzeNetwork_Return ==
    /\ call = "analyze_network" /\ pc = "loop"
    /\ i = Len(arg.elems)
    /\ result' = SuspiciousClusters(G, params.cluster_threshold)
    /\ pc' = "done"
    /\ UNCHANGED <<globals, call, arg, params, i, suspicious_accounts, phrase_counts,
                   sentiments, score_raised, G, raised, log>>

----------------------------------------------------------------------------
(* The analyzers as functions of their argument *)

\* lines 37-79: the loop of detect_abnormal_posting over a list of items
RECURSIVE DetectAbnormalPosting(_, _, _)
DetectAbnormalPosting(items, suspicious, p) ==
    IF items = <<>> THEN suspicious
    ELSE DetectAbnormalPosting(Tail(items),
            ProcessAccount(suspicious, Head(items).key, Head(items).value, p).suspicious, p)

\* lines 87-99: the loop of detect_repeated_phrases and its return value
RECURSIVE CountPhrases(_, _)
CountPhrases(posts, counts) ==
    IF posts = <<>> THEN counts
    ELSE CountPhrases(Tail(posts),
            IF Head(posts).type = "str"
            THEN Increment(counts, CleanedPost(Head(posts).text)) ELSE counts)

DetectRepeatedPhrases(posts, repetition_threshold) ==
    RepeatedPhrases(CountPhrases(posts, <<>>), repetition_threshold)

\* lines 107-126 when no scoring call raises on its own
RECURSIVE Scores(_)
Scores(posts) ==
    IF posts = <<>> THEN <<>>
    ELSE IF Head(posts).type = "str" /\ Resolves("TextBlob")
         THEN <<Polarity(Head(posts).text)>> \o Scores(Tail(posts))
         ELSE Scores(Tail(posts))

SentimentAnalysis(posts) == IF Scores(posts) = <<>> THEN Zero ELSE Mean(Scores(posts))

\* lines 135-153: the loop of analyze_network and its return value
RECURSIVE BuildGraph(_, _)
BuildGraph(items, g) ==
    IF items = <<>> THEN g
    ELSE BuildGraph(Tail(items),
            IF Head(items).value.type = "list" /\ Head(items).key.type = "str"
            THEN AddEdges(g, Head(items).key, Head(items).value.elems) ELSE g)

AnalyzeNetwork(items, cluster_threshold) ==
    SuspiciousClusters(BuildGraph(items, [nodes |-> {}, edges |-> {}]), cluster_threshold)

----------------------------------------------------------------------------
(* Specifications *)

\* the module namespaces a call is made in: the one the file itself builds
\* (lines 1-9 and the defs; the imports of lines 14-16 bind locals of
\* install_dependencies), and the one of a process that has also put the three
\* library names into the module
Namespaces == {ModuleGlobals, ModuleGlobals \cup InstallDependenciesLocals}

Init ==
    /\ globals \in Namespaces
    /\ pc = "call" /\ i = 0 /\ result = <<>> /\ raised = "none" /\ log = <<>>
    /\ NoLocals
    /\ \/ InitAbnormal
       \/ InitPhrases
       \/ InitSentiment
       \/ InitNetwork

Next ==
    \/ DetectAbnormalPosting_Enter
    \/ DetectAbnormalPosting_Account
    \/ DetectAbnormalPosting_Return
    \/ DetectRepeatedPhrases_Enter
    \/ DetectRepeatedPhrases_Post
    \/ DetectRepeatedPhrases_Return
    \/ SentimentAnalysis_Enter
    \/ SentimentAnalysis_Post
    \/ SentimentAnalysis_Return
    \/ AnalyzeNetwork_Enter
    \/ AnalyzeNetwork_Account
    \/ AnalyzeNetwork_Return

Spec == Init /\ [][Next]_vars

----------------------------------------------------------------------------
(* Claims about detect_abnormal_posting *)

AbnormalCall == call = "detect_abnormal_posting" /\ arg.type = "dict"

\* the elements of a timestamp value that are strings dateutil can parse
ParseableIdx(v) ==
    IF v.type # "list" THEN {}
    ELSE {k \in 1..Len(v.elems) : v.elems[k].type = "str" /\ Parseable(v.elems[k].text)}

WellFormed(v) == v.type = "list" /\ \A k \in 1..Len(v.elems) : v.elems[k].type = "str"

\* the parsed instants of v in ascending order: the nondecreasing sequence with
\* the same number of occurrences of every instant
SortedInstants(v) ==
    LET idx == ParseableIdx(v)
        at(k) == ParserParse(v.elems[k].text).instant
        vals == {at(k) : k \in idx}
    IN  CHOOSE q \in [1..Cardinality(idx) -> vals] :
            /\ \A j \in 1..(Cardinality(idx) - 1) : q[j] <= q[j + 1]
            /\ \A x \in vals : Cardinality({j \in 1..Cardinality(idx) : q[j] = x})
                               = Cardinality({k \in idx : at(k) = x})

Gaps(v) == LET q == SortedInstants(v) IN [j \in 1..(Len(q) - 1) |-> q[j + 1] - q[j]]

\* Rule A: mean gap < interval_threshold
RuleA(v, T) == LET g == Gaps(v) IN SumSeq(g) < T * Len(g)

\* Rule B: at least 2 gaps and some gap x with x < T and
\* x < mean - k * stddev, stddev the sample standard deviation (k >= 0):
\* with n gaps of sum S, (mean - x) = (S - n*x)/n and
\* stddev^2 = sum((n*g_j - S)^2) / (n^2 * (n-1))
RuleB(v, T, k) ==
    LET g == Gaps(v)
        n == Len(g)
        S == SumSeq(g)
        dev2 == SumSeq([j \in 1..n |-> (n * g[j] - S) * (n * g[j] - S)])
    IN  /\ n >= 2
        /\ \E j \in 1..n :
              /\ g[j] < T
              /\ S > n * g[j]
              /\ k * k * dev2 < (n - 1) * (S - n * g[j]) * (S - n * g[j])

\* C1: when the call has returned, every account whose value is a list of
\* strings of which at least 2 parse is in the result if and only if Rule A or
\* Rule B holds of its gaps.
C1_FlaggedIffRule ==
    (AbnormalCall /\ pc \in {"done", "raised"}) =>
        /\ pc = "done"
        /\ \A k \in 1..Len(arg.elems) :
              LET v == arg.elems[k].value
              IN  (WellFormed(v) /\ Cardinality(ParseableIdx(v)) >= 2) =>
                     (arg.elems[k].key \in Range(result)
                        <=> (\/ RuleA(v, params.interval_threshold)
                             \/ RuleB(v, params.interval_threshold,
                                      params.outlier_threshold_stddev)))

\* C2: an account with fewer than 2 parseable timestamps is never in the list
\* of suspicious accounts, neither during the loop nor in the returned list.
C2_FewParseableNeverFlagged ==
    AbnormalCall =>
        \A k \in 1..Len(arg.elems) :
            Cardinality(ParseableIdx(arg.elems[k].value)) < 2 =>
                /\ arg.elems[k].key \notin Range(suspicious_accounts)
                /\ arg.elems[k].key \notin Range(result)

\* the call has returned, the timestamps were parsed, the first account has one
\* parseable timestamp among unparseable ones and is not flagged, while the
\* second account is flagged
C2_Witness ==
    /\ AbnormalCall /\ pc = "done" /\ Resolves("parser")
    /\ LET v == arg.elems[1].value
       IN  /\ WellFormed(v) /\ Len(v.elems) >= 2
           /\ Cardinality(ParseableIdx(v)) = 1
    /\ arg.elems[1].key \notin Range(result)
    /\ arg.elems[2].key \in Range(result)

Reordered(s) == {[k \in 1..Len(s) |-> s[f[k]]] : f \in Permutations(1..Len(s))}

\* C3: when the call has returned, the set of flagged accounts is the one the
\* function returns for the same input with any one account's timestamp list
\* put in any other order.
C3_OrderInvariant ==
    (AbnormalCall /\ pc = "done") =>
        \A k \in 1..Len(arg.elems) :
            arg.elems[k].value.type = "list" =>
                \A q \in Reordered(arg.elems[k].value.elems) :
                    Range(DetectAbnormalPosting(
                            [arg.elems EXCEPT ![k].value = PyList(q)], <<>>, params))
                        = Range(result)

\* the call has returned, the timestamps were parsed, and the first account
\* lists a later instant before an earlier one: its gap is 40 s and it is not
\* flagged under interval_threshold = 30
C3_Witness ==
    /\ AbnormalCall /\ pc = "done" /\ Resolves("parser")
    /\ arg.elems[1].value = PyList(<<PyStr("2025/03/09 12:00:40"), PyStr("2025-03-09 12:00:00")>>)
    /\ params.interval_threshold = 30
    /\ arg.elems[1].key \notin Range(result)

----------------------------------------------------------------------------
(* Claims about detect_repeated_phrases *)

PhrasesCall == call = "detect_repeated_phrases" /\ arg.type = "list"

StrIdx == {k \in 1..Len(arg.elems) : arg.elems[k].type = "str"}

Occurrences(key) == Cardinality({k \in StrIdx : CleanedPost(arg.elems[k].text) = key})

\* C4: when the call has returned, the result lists, each once, exactly the
\* normalized keys that occur more than repetition_threshold times among the
\* string entries.
C4_StrictlyAboveThreshold ==
    (PhrasesCall /\ pc = "done") =>
        /\ Range(result) = {key \in {CleanedPost(arg.elems[k].text) : k \in StrIdx} :
                               Occurrences(key) > params.repetition_threshold}
        /\ Cardinality(Range(result)) = Len(result)

\* the call has returned with one phrase: the posts hold a non-string entry and
\* one string, and repetition_threshold is 0
C4_Witness ==
    /\ PhrasesCall /\ pc = "done"
    /\ params.repetition_threshold = 0
    /\ Len(arg.elems) = 2 /\ Cardinality(StrIdx) = 1
    /\ Len(result) = 1

\* the post with punctuation removed and letters in lower case
C5_NotPunct(c) == c # "!"
C5_Fold(t) ==
    LET u == SelectSeq(t, C5_NotPunct)
    IN  [k \in 1..Len(u) |-> IF u[k] = "H" THEN "h" ELSE u[k]]

\* a and b are the same text between leading and trailing blanks
C5_SameUpToEdges(a, b) ==
    \E i1 \in 1..(Len(a) + 1), j1 \in 0..Len(a), i2 \in 1..(Len(b) + 1), j2 \in 0..Len(b) :
        /\ SubSeq(a, i1, j1) = SubSeq(b, i2, j2)
        /\ \A k \in 1..Len(a) : (k < i1 \/ k > j1) => a[k] = " "
        /\ \A k \in 1..Len(b) : (k < i2 \/ k > j2) => b[k] = " "

\* t and u differ only in letter case, punctuation and leading/trailing blanks
C5_DifferOnly(t, u) == C5_SameUpToEdges(C5_Fold(t), C5_Fold(u))

\* key is lower case, without punctuation, without leading or trailing blank
C5_Normalized(key) ==
    /\ \A k \in 1..Len(key) : key[k] \notin {"H", "!"}
    /\ key # <<>> => (key[1] # " " /\ key[Len(key)] # " ")

\* C5: when the call has returned, any two string posts that differ only in
\* case, punctuation or leading/trailing blanks are counted in one entry of
\* phrase_counts, whose key is their normalized form, whose count is the number
\* of such posts, and which is reported when that count exceeds the threshold.
C5_CaseAndPunctuationInsensitive ==
    (PhrasesCall /\ pc = "done") =>
        \A a \in StrIdx, b \in StrIdx :
            (a < b /\ C5_DifferOnly(arg.elems[a].text, arg.elems[b].text)) =>
                \E n \in 1..Len(phrase_counts) :
                    LET e == phrase_counts[n]
                    IN  /\ C5_Normalized(e.phrase)
                        /\ C5_DifferOnly(arg.elems[a].text, e.phrase)
                        /\ C5_DifferOnly(arg.elems[b].text, e.phrase)
                        /\ e.count = Cardinality({k \in StrIdx :
                                        C5_DifferOnly(arg.elems[k].text, e.phrase)})
                        /\ e.count > params.repetition_threshold
                              => e.phrase \in Range(result)

\* the call has returned <<"h">> for the posts "H" and "h" under threshold 1
C5_Witness ==
    /\ PhrasesCall /\ pc = "done"
    /\ params.repetition_threshold = 1
    /\ arg.elems = <<PyStr(<<"H">>), PyStr(<<"h">>)>>
    /\ result = << <<"h">> >>

----------------------------------------------------------------------------
(* Claims about sentiment_analysis *)

SentimentCall == call = "sentiment_analysis" /\ arg.type = "list"

\* the string posts whose scoring did not raise
Scored == {k \in StrIdx : k \notin score_raised}

RECURSIVE TotalPolarity(_)
TotalPolarity(S) ==
    IF S = {} THEN 0
    ELSE LET k == CHOOSE k \in S : TRUE
         IN  Polarity(arg.elems[k].text) + TotalPolarity(S \ {k})

\* C6: when the call has returned, the result is 0 if no post was scored, and
\* otherwise the sum of the polarities of the scored posts divided by their
\* number.
C6_MeanOfScoredPosts ==
    (SentimentCall /\ pc = "done") =>
        IF Scored = {} THEN result = Zero
        ELSE /\ result.den > 0
             /\ result.num * Cardinality(Scored) = TotalPolarity(Scored) * result.den

\* the call has returned a nonzero mean although one of its two entries was
\* excluded (not a string, or its scoring raised)
C6_Witness ==
    /\ SentimentCall /\ pc = "done"
    /\ Len(arg.elems) = 2 /\ Cardinality(Scored) = 1
    /\ result.num # 0

----------------------------------------------------------------------------
(* Claims about analyze_network *)

NetworkCall == call = "analyze_network" /\ arg.type = "dict"

\* the (account, friend) pairs of the input with a string key, a list value and
\* a string friend
ValidPairs ==
    {pr \in UNION {{<<arg.elems[k].key.text, arg.elems[k].value.elems[j].text>> :
                        j \in {j \in 1..Len(arg.elems[k].value.elems) :
                                  arg.elems[k].value.elems[j].type = "str"}} :
                   k \in {k \in 1..Len(arg.elems) :
                             /\ arg.elems[k].key.type = "str"
                             /\ arg.elems[k].value.type = "list"}} : TRUE}

PairNodes == {pr[1] : pr \in ValidPairs} \cup {pr[2] : pr \in ValidPairs}

RECURSIVE TransitiveClosure(_)
TransitiveClosure(R) ==
    LET R2 == R \cup {<<x[1], y[2]>> : x \in R, y \in {z \in R : TRUE}}
        Step == {pr \in R2 : \E x \in R, y \in R : x[1] = pr[1] /\ y[2] = pr[2] /\ x[2] = y[1]}
    IN  IF R \cup Step = R THEN R ELSE TransitiveClosure(R \cup Step)

\* u and v are joined by a path of valid pairs taken in either direction
ConnectedPairs ==
    TransitiveClosure({<<n, n>> : n \in PairNodes} \cup ValidPairs
                        \cup {<<pr[2], pr[1]>> : pr \in ValidPairs})

\* the maximal connected sets of nodes
MaximalComponents == {{v \in PairNodes : <<u, v>> \in ConnectedPairs} : u \in PairNodes}

\* C7: the call returns, and its result is exactly the set of maximal connected
\* components of the graph of valid pairs that have more than cluster_threshold
\* nodes.
C7_ComponentsAboveThreshold ==
    (NetworkCall /\ pc \in {"done", "raised"}) =>
        /\ pc = "done"
        /\ result = {c \in MaximalComponents : Cardinality(c) > params.cluster_threshold}

RECURSIVE SetToSeq(_)
SetToSeq(S) ==
    IF S = {} THEN <<>>
    ELSE LET x == CHOOSE x \in S : TRUE IN <<x>> \o SetToSeq(S \ {x})

\* the input in which every valid pair is listed by the friend instead of the
\* account
MirroredItems ==
    LET listers(n) == {PyStr(pr[1]) : pr \in {q \in ValidPairs : q[2] = n}}
        nodes == SetToSeq(PairNodes)
    IN  [k \in 1..Len(nodes) |-> Item(PyStr(nodes[k]), PyList(SetToSeq(listers(nodes[k]))))]

\* C8: the call returns; an account and each string friend it lists are in one
\* connected component of the graph, and the result is the one returned when
\* every pair is listed by the friend instead.
C8_Symmetric ==
    (NetworkCall /\ pc \in {"done", "raised"}) =>
        /\ pc = "done"
        /\ \A pr \in ValidPairs :
              \E c \in ConnectedComponents(G) : pr[1] \in c /\ pr[2] \in c
        /\ result = AnalyzeNetwork(MirroredItems, params.cluster_threshold)

----------------------------------------------------------------------------
(* Claims about the two kinds of error *)

WrongType ==
    \/ call \in {"detect_abnormal_posting", "analyze_network"} /\ arg.type # "dict"
    \/ call \in {"detect_repeated_phrases", "sentiment_analysis"} /\ arg.type # "list"

\* C9: a call whose argument has the wrong container type returns the zero
\* value (an empty list, 0 for sentiment_analysis) after logging one error,
\* without a loop iteration, without touching a local and without raising.
C9_StructuralErrorAborts ==
    (WrongType /\ pc # "call") =>
        /\ pc = "done" /\ raised = "none"
        /\ i = 0 /\ NoLocals
        /\ Len(log) = 1 /\ log[1].level = "error"
        /\ result = IF call = "sentiment_analysis" THEN Zero ELSE <<>>

\* detect_abnormal_posting has returned for a non-empty list given in place of
\* the dictionary
C9_Witness ==
    /\ call = "detect_abnormal_posting" /\ pc = "done"
    /\ arg.type = "list" /\ Len(arg.elems) > 0
    /\ WrongType

C10_IsStr(e) == e.type = "str"
C10_ParseableElem(e) == e.type = "str" /\ Parseable(e.text)
C10_WellFormedItem(it) == WellFormed(it.value)
C10_ValidNetworkItem(it) == it.key.type = "str" /\ it.value.type = "list"

RECURSIVE C10_ScoredPosts(_)
C10_ScoredPosts(k) ==
    IF k > Len(arg.elems) THEN <<>>
    ELSE (IF k \in Scored THEN <<arg.elems[k]>> ELSE <<>>) \o C10_ScoredPosts(k + 1)

\* the argument without its offending elements
C10_Cleaned ==
    CASE call = "detect_abnormal_posting" ->
            LET kept == SelectSeq(arg.elems, C10_WellFormedItem)
            IN  [k \in 1..Len(kept) |->
                    Item(kept[k].key,
                         PyList(SelectSeq(kept[k].value.elems, C10_ParseableElem)))]
      [] call = "detect_repeated_phrases" -> SelectSeq(arg.elems, C10_IsStr)
      [] call = "sentiment_analysis" -> C10_ScoredPosts(1)
      [] call = "analyze_network" ->
            LET kept == SelectSeq(arg.elems, C10_ValidNetworkItem)
            IN  [k \in 1..Len(kept) |->
                    Item(kept[k].key, PyList(SelectSeq(kept[k].value.elems, C10_IsStr)))]

C10_ResultOnCleaned ==
    CASE call = "detect_abnormal_posting" -> DetectAbnormalPosting(C10_Cleaned, <<>>, params)
      [] call = "detect_repeated_phrases" ->
            DetectRepeatedPhrases(C10_Cleaned, params.repetition_threshold)
      [] call = "sentiment_analysis" -> SentimentAnalysis(C10_Cleaned)
      [] call = "analyze_network" -> AnalyzeNetwork(C10_Cleaned, params.cluster_threshold)

\* the number of offending elements: a skipped account counts once, whatever
\* its list holds
C10_Offending ==
    LET count(seq, k) == Cardinality({j \in 1..Len(seq) : seq[j].type = "str"})
    IN
    CASE call = "detect_abnormal_posting" ->
            SumSeq([k \in 1..Len(arg.elems) |->
                IF ~WellFormed(arg.elems[k].value) THEN 1
                ELSE Len(arg.elems[k].value.elems)
                        - Cardinality(ParseableIdx(arg.elems[k].value))])
      [] call = "detect_repeated_phrases" -> Len(arg.elems) - Cardinality(StrIdx)
      [] call = "sentiment_analysis" -> Len(arg.elems) - Cardinality(Scored)
      [] call = "analyze_network" ->
            SumSeq([k \in 1..Len(arg.elems) |->
                IF ~C10_ValidNetworkItem(arg.elems[k]) THEN 1
                ELSE Len(arg.elems[k].value.elems)
                        - count(arg.elems[k].value.elems, k)])

C10_ErrorsLogged == Cardinality({k \in 1..Len(log) : log[k].level = "error"})

\* C10: a call whose argument has the right container type never raises; when
\* it has returned, one error was logged per offending element and the result
\* is the one the function returns for the argument without those elements.
C10_ElementErrorsNeverTerminate ==
    ~WrongType =>
        /\ pc # "raised"
        /\ pc = "done" =>
              /\ result = C10_ResultOnCleaned
              /\ C10_ErrorsLogged = C10_Offending

====
